---- MODULE Spec2Model ----
(***************************************************************************)
(* A model of FeiniuBus/cache: the Store.Get pipeline (store.go), the      *)
(* duplicate-suppression unit (singleflight/singleflight.go), the          *)
(* byte-budgeted cache wrapper (cache.go), the Sinks (sinks.go) and the     *)
(* registry of named Stores (store.go).                                    *)
(* Every goroutine is a thread of the model; one action is one step of a   *)
(* goroutine between two points where other goroutines can interleave: a   *)
(* critical section under a mutex, an atomic counter update, or a stretch  *)
(* of code that only touches the goroutine's own locals.                   *)
(***************************************************************************)
EXTENDS Integers, Sequences, FiniteSets, TLC

\* ------------------------------------------------------------------ bounds
NumThreads == 2          \* goroutines calling Store.Get concurrently
MaxGets == 2             \* Get calls issued in one run, over all goroutines
MaxCacheBytes == 4       \* the positive byte budget a Store may be built with

Threads == 1..NumThreads

\* Keys and loader payloads are strings, modelled as sequences of characters
\* so that len(key) and ByteView.Len() are computed, not assumed.
Keys == {<<1>>, <<2, 2>>}
Values == {<<7>>, <<8, 8, 8>>}
LoaderErrs == {"e1", "e2"}

NoErr == "nil"
ErrNilDest == "store: nil dest Sink"

\* the budgets a Store is constructed with: disabled (<= 0) or positive
Budgets == {-1, 0, MaxCacheBytes}

\* ---------------------------------------------------------------- ByteView
\* ByteView{b []byte, s string}: b == nil is the flag bnil.
ZeroView == [bnil |-> TRUE, b |-> <<>>, s |-> <<>>]

ViewLen(v) == IF ~v.bnil THEN Len(v.b) ELSE Len(v.s)

\* ------------------------------------------------------------------- sinks
\* A Sink value is <<>> (a nil interface) or <<sink>>, sink a stringSink:
\* sp is the caller's string slot *sp, v the frozen view s.v.
NilSink == <<>>
StringSink == <<[sp |-> <<>>, v |-> ZeroView]>>

SinkSetString(d, str) ==
    <<[sp |-> str, v |-> [bnil |-> TRUE, b |-> <<>>, s |-> str]]>>

SinkSetBytes(d, bytes) == SinkSetString(d, bytes)

SinkView(d) == d[1].v

\* setSinkView: a stringSink has no setView, so the view goes through
\* SetBytes when it holds bytes and through SetString otherwise.
setSinkView(d, v) ==
    IF ~v.bnil THEN SinkSetBytes(d, v.b) ELSE SinkSetString(d, v.s)

\* --------------------------------------------------------------------- lru
\* The recency list of lru.Cache: entries [key, value], most recent first.
LruHas(ll, k) == \E i \in 1..Len(ll) : ll[i].key = k

LruIndex(ll, k) == CHOOSE i \in 1..Len(ll) : ll[i].key = k

LruWithout(ll, i) == SubSeq(ll, 1, i - 1) \o SubSeq(ll, i + 1, Len(ll))

LruAdd(ll, k, v) ==
    IF LruHas(ll, k)
    THEN <<[key |-> k, value |-> v]>> \o LruWithout(ll, LruIndex(ll, k))
    ELSE <<[key |-> k, value |-> v]>> \o ll

LruGet(ll, k) ==
    IF LruHas(ll, k)
    THEN <<ll[LruIndex(ll, k)]>> \o LruWithout(ll, LruIndex(ll, k))
    ELSE ll

LruValue(ll, k) == ll[LruIndex(ll, k)].value

\* ------------------------------------------------- the registry of Stores
\* The names Stores are registered under, and the Getter handed to NewStore:
\* <<>> is a nil Getter.
Names == {"a", "b"}
NilGetter == <<>>
Getters == {NilGetter, <<"getter">>}

PanicNilGetter == <<"nil Getter">>
PanicDuplicate(name) == <<"duplicate registration of store ", name>>

\* ------------------------------------------- sinks over buffers with identity
\* A []byte is the index of its buffer in heap, 0 for a nil slice; a
\* ByteView is then [ref, s]: ref its field b, s its field s.
MaxSinkCalls == 2        \* calls made on sinks in one run

\* payloads: the JSON texts 1 and "a", and a text that is not JSON
Texts == {<<49>>, <<34, 97, 34>>, <<7>>}

\* the values handed to SetJSON: a number, a string, and a value that
\* encoding/json cannot encode (a channel)
JsonValues == {[kind |-> "num", n |-> 1, s |-> << >>],
               [kind |-> "str", n |-> 0, s |-> <<97>>],
               [kind |-> "chan", n |-> 0, s |-> << >>]}

\* json.Marshal: a number is written as its digit, a string between quotes
Marshal(jv) ==
    CASE jv.kind = "num" -> [ok |-> TRUE, b |-> <<48 + jv.n>>]
      [] jv.kind = "str" -> [ok |-> TRUE, b |-> <<34>> \o jv.s \o <<34>>]
      [] OTHER -> [ok |-> FALSE, b |-> << >>]

\* json.Unmarshal into a destination of type typ ("num" or "str"): the
\* text must be a JSON value of that type
Unmarshal(b, typ) ==
    CASE Len(b) = 1 /\ b[1] \in 48..57 /\ typ = "num" ->
            [ok |-> TRUE, val |-> [kind |-> "num", n |-> b[1] - 48, s |-> << >>]]
      [] Len(b) >= 2 /\ b[1] = 34 /\ b[Len(b)] = 34 /\ typ = "str" ->
            [ok |-> TRUE,
             val |-> [kind |-> "str", n |-> 0, s |-> SubSeq(b, 2, Len(b) - 1)]]
      [] OTHER -> [ok |-> FALSE, val |-> [kind |-> "chan", n |-> 0, s |-> << >>]]

ZeroRef == [ref |-> 0, s |-> << >>]

\* the bytes a ByteView stands for: those of b if b is not nil, else s
Content(h, v) == IF v.ref # 0 THEN h[v.ref] ELSE v.s

\* a new buffer holding bytes: the heap after the allocation; the buffer
\* is the last one
Alloc(h, bytes) == Append(h, bytes)

\* cloneBytes(b): a new buffer with the bytes of b
cloneBytes(h, b) == Alloc(h, IF b = 0 THEN << >> ELSE h[b])

\* A sink: kind its variant; sp the string slot of a stringSink; dv the
\* ByteView slot *dst of a byteViewSink; dstNil / dst the pointer of an
\* allocBytesSink (nil or not) and the slice it points to; typ / jdst the
\* type of the value a jsonSink decodes into and <<value>> once decoded;
\* v the field v.
NoSink == [kind |-> "none", sp |-> << >>, dv |-> ZeroRef, dstNil |-> FALSE,
           dst |-> 0, typ |-> "num", jdst |-> << >>, v |-> ZeroRef]

NewSink(kind, dstNil, typ) ==
    [NoSink EXCEPT !.kind = kind, !.dstNil = dstNil, !.typ = typ]

\* the sinks the constructors build: only AllocatingByteSliceSink accepts
\* a nil pointer (ByteViewSink panics on one)
NewSinks ==
    {NewSink("string", FALSE, "num"), NewSink("byteview", FALSE, "num"),
     NewSink("alloc", FALSE, "num"), NewSink("alloc", TRUE, "num"),
     NewSink("json", FALSE, "num"), NewSink("json", FALSE, "str")}

\* the outcome of a call on a sink: the sink and the heap after it, and
\* whether it returned nil
Done(sk, h) == [sink |-> sk, heap |-> h, ok |-> TRUE]
Failed(sk, h) == [sink |-> sk, heap |-> h, ok |-> FALSE]

\* Faulty variant: SetString leaves the bytes of an earlier SetJSON in v.b
stringSinkSetStringKeepsB(sk, h, str) ==
    Done([sk EXCEPT !.v.s = str, !.sp = str], h)

\* stringSink.SetString
stringSinkSetString(sk, h, str) ==
    Done([sk EXCEPT !.v = [ref |-> 0, s |-> str], !.sp = str], h)

\* stringSink.SetBytes: SetString(string(v))
stringSinkSetBytes(sk, h, b) == stringSinkSetString(sk, h, h[b])

\* stringSink.SetJSON: v.b = b, *sp = string(b); v.s is left as it was
stringSinkSetJSON(sk, h, jv) ==
    IF ~Marshal(jv).ok THEN Failed(sk, h)
    ELSE LET h1 == Alloc(h, Marshal(jv).b) IN
         Done([sk EXCEPT !.v.ref = Len(h1), !.sp = Marshal(jv).b], h1)

\* byteViewSink.setView
byteViewSinkSetView(sk, h, v) == Done([sk EXCEPT !.dv = v], h)

\* byteViewSink.SetBytes
byteViewSinkSetBytes(sk, h, b) ==
    LET h1 == cloneBytes(h, b) IN
    Done([sk EXCEPT !.dv = [ref |-> Len(h1), s |-> << >>]], h1)

\* byteViewSink.SetString
byteViewSinkSetString(sk, h, str) ==
    Done([sk EXCEPT !.dv = [ref |-> 0, s |-> str]], h)

\* byteViewSink.SetJSON
byteViewSinkSetJSON(sk, h, jv) ==
    IF ~Marshal(jv).ok THEN Failed(sk, h)
    ELSE LET h1 == Alloc(h, Marshal(jv).b) IN
         Done([sk EXCEPT !.dv = [ref |-> Len(h1), s |-> << >>]], h1)

\* allocBytesSink.setView: *s.dst of a nil dst panics
allocBytesSinkSetView(sk, h, v) ==
    IF sk.dstNil THEN Failed(sk, h)
    ELSE LET h1 == IF v.ref # 0 THEN cloneBytes(h, v.ref) ELSE Alloc(h, v.s) IN
         Done([sk EXCEPT !.dst = Len(h1), !.v = v], h1)

\* Faulty variant: *s.dst = b, without the second copy
allocBytesSinkSetBytesOwnedShared(sk, h, b) ==
    IF sk.dstNil THEN Failed(sk, h)
    ELSE Done([sk EXCEPT !.dst = b, !.v = [ref |-> b, s |-> << >>]], h)

\* allocBytesSink.setBytesOwned
allocBytesSinkSetBytesOwned(sk, h, b) ==
    IF sk.dstNil THEN Failed(sk, h)
    ELSE LET h1 == cloneBytes(h, b) IN
         Done([sk EXCEPT !.dst = Len(h1), !.v = [ref |-> b, s |-> << >>]], h1)

\* allocBytesSink.SetBytes: setBytesOwned(cloneBytes(b))
allocBytesSinkSetBytes(sk, h, b) ==
    LET h1 == cloneBytes(h, b) IN allocBytesSinkSetBytesOwned(sk, h1, Len(h1))

\* allocBytesSink.SetString
allocBytesSinkSetString(sk, h, str) ==
    IF sk.dstNil THEN Failed(sk, h)
    ELSE LET h1 == Alloc(h, str) IN
         Done([sk EXCEPT !.dst = Len(h1), !.v = [ref |-> 0, s |-> str]], h1)

\* allocBytesSink.SetJSON
allocBytesSinkSetJSON(sk, h, jv) ==
    IF ~Marshal(jv).ok THEN Failed(sk, h)
    ELSE LET h1 == Alloc(h, Marshal(jv).b) IN
         allocBytesSinkSetBytesOwned(sk, h1, Len(h1))

\* jsonSink.SetBytes
jsonSinkSetBytes(sk, h, b) ==
    IF ~Unmarshal(h[b], sk.typ).ok THEN Failed(sk, h)
    ELSE LET h1 == cloneBytes(h, b) IN
         Done([sk EXCEPT !.jdst = <<Unmarshal(h[b], sk.typ).val>>,
                         !.v = [ref |-> Len(h1), s |-> << >>]], h1)

\* jsonSink.SetString: b := []byte(v)
jsonSinkSetString(sk, h, str) ==
    IF ~Unmarshal(str, sk.typ).ok THEN Failed(sk, h)
    ELSE LET h1 == Alloc(h, str) IN
         Done([sk EXCEPT !.jdst = <<Unmarshal(str, sk.typ).val>>,
                         !.v = [ref |-> Len(h1), s |-> << >>]], h1)

\* jsonSink.SetJSON
jsonSinkSetJSON(sk, h, jv) ==
    IF ~Marshal(jv).ok \/ ~Unmarshal(Marshal(jv).b, sk.typ).ok THEN Failed(sk, h)
    ELSE LET h1 == Alloc(h, Marshal(jv).b) IN
         Done([sk EXCEPT !.jdst = <<Unmarshal(Marshal(jv).b, sk.typ).val>>,
                         !.v = [ref |-> Len(h1), s |-> << >>]], h1)

\* the methods of the Sink interface, dispatched on the variant
SetString(sk, h, str) ==
    CASE sk.kind = "string" -> stringSinkSetString(sk, h, str)
      [] sk.kind = "byteview" -> byteViewSinkSetString(sk, h, str)
      [] sk.kind = "alloc" -> allocBytesSinkSetString(sk, h, str)
      [] OTHER -> jsonSinkSetString(sk, h, str)

SetBytes(sk, h, b) ==
    CASE sk.kind = "string" -> stringSinkSetBytes(sk, h, b)
      [] sk.kind = "byteview" -> byteViewSinkSetBytes(sk, h, b)
      [] sk.kind = "alloc" -> allocBytesSinkSetBytes(sk, h, b)
      [] OTHER -> jsonSinkSetBytes(sk, h, b)

SetJSON(sk, h, jv) ==
    CASE sk.kind = "string" -> stringSinkSetJSON(sk, h, jv)
      [] sk.kind = "byteview" -> byteViewSinkSetJSON(sk, h, jv)
      [] sk.kind = "alloc" -> allocBytesSinkSetJSON(sk, h, jv)
      [] OTHER -> jsonSinkSetJSON(sk, h, jv)

view(sk) == IF sk.kind = "byteview" THEN sk.dv ELSE sk.v

\* setSinkView over buffers with identity: setView for the variants that
\* have it, else SetBytes for a view that holds bytes and SetString for one
\* that holds a string
setSinkViewRef(sk, h, v) ==
    CASE sk.kind = "byteview" -> byteViewSinkSetView(sk, h, v)
      [] sk.kind = "alloc" -> allocBytesSinkSetView(sk, h, v)
      [] OTHER -> IF v.ref # 0 THEN SetBytes(sk, h, v.ref) ELSE SetString(sk, h, v.s)

\* ------------------------------------------------------------------- state
VARIABLES
    cacheBytes,  \* Store.cacheBytes, the byte budget, fixed at construction
    cache,       \* Store.cache: [nbytes, lruNil, ll, nhit, nget, nevict]
    Stats,       \* Store.Stats, the six atomic counters
    m,           \* singleflight Store.m: key -> index of its call in calls, 0 if absent
    calls,       \* the call records allocated so far: [wg, val, err]
    pc,          \* where each goroutine stands
    key,         \* the key of the goroutine's Get
    dest,        \* the Sink of the goroutine's Get
    loc,         \* the goroutine's locals in Get, load, Do and the closure
    ret,         \* <<>> until the goroutine's Get returns, then <<err>>
    hist,        \* per goroutine: what its current Get did (observation only)
    ghost        \* run-wide observations (never read by the program):
                 \* loads[k] loader invocations started for k, nwave[k]
                 \* Gets of k flagged wave, fails / oks loader invocations
                 \* that returned an error / nil, evicted the keys evicted,
                 \* made[k] the payloads the loader has produced for k,
                 \* miss0 the Gets whose first lookup missed

VARIABLES
    stores,      \* the package map stores: name -> index in objs, 0 if absent
    objs,        \* the Store objects NewStore has allocated
    mu,          \* the package lock mu: w the goroutine holding it for
                 \* writing (0 if none), r the goroutines holding it for reading
    reg          \* per goroutine: its call of NewStore or GetStore

VARIABLES
    held,        \* per goroutine frame: the locks of the Store it holds, out
                 \* of "sf" (singleflight Store.mu), "cacheW" (cache.mu held
                 \* by Lock) and "cacheR" (cache.mu held by RLock)
    parent       \* per goroutine frame: 0, or the frame whose loader issued
                 \* this frame's Get (a loader calling Store.Get runs the
                 \* inner Get on its own goroutine, one frame deeper)

VARIABLES
    heap,        \* the byte buffers allocated so far: heap[i] the bytes of buffer
                 \* i (a []byte is the index of its buffer, 0 for nil)
    sink,        \* the Sink a loader or Get writes to
    cached,      \* <<>>, or <<v>> with v the ByteView the cache holds
    lbuf,        \* the buffer the loader last passed to SetBytes, 0 if none
    obs          \* observation only: last <<payload>> of the most recent
                 \* successful write of sink, ok whether the last call
                 \* succeeded, frozen the bytes of cached when it was cached,
                 \* n the calls made so far

storeVars == <<cacheBytes, cache, Stats, m, calls, pc, key, dest, loc, ret, hist, ghost>>

regVars == <<stores, objs, mu, reg>>

lockVars == <<held, parent>>

sinkVars == <<heap, sink, cached, lbuf, obs>>

vars == <<storeVars, regVars, lockVars, sinkVars>>

\* an interface{} holding a ByteView is <<view>>, a nil interface{} is <<>>
ZeroLoc == [value |-> ZeroView, cacheHit |-> FALSE, destPopulated |-> FALSE,
            err |-> NoErr, c |-> 0, fnVal |-> <<>>, fnErr |-> NoErr,
            doVal |-> <<>>, doErr |-> NoErr]

\* wave: the first lookup missed before any loader invocation for the key
\* had started; ran: loader invocations made by this Get; fnRan: this Get
\* executed the work function; out: what the loader it ran produced;
\* joined / stale: Do found a record, and that record was already done;
\* hit0: the first lookup hit; sets: writes of a view into dest by Get;
\* after: a Get of the same key had returned nil when this Get was called.
\* a goroutine's call into the registry: op the function, name / cacheBytes /
\* getter its arguments, out <<>> until it ends, then <<"ok", s>> with s the
\* index of the *Store returned (0 for nil) or <<"panic", message>>
ZeroReg == [pc |-> "idle", op |-> "", name |-> "", cacheBytes |-> 0,
            getter |-> NilGetter, out |-> <<>>]

ZeroHist == [wave |-> FALSE, ran |-> 0, fnRan |-> FALSE, out |-> <<>>,
             stale |-> FALSE, hit0 |-> FALSE, joined |-> FALSE, sets |-> 0,
             after |-> FALSE]

Init ==
    /\ cacheBytes \in Budgets
    /\ cache = [nbytes |-> 0, lruNil |-> TRUE, ll |-> <<>>,
                nhit |-> 0, nget |-> 0, nevict |-> 0]
    /\ Stats = [Gets |-> 0, CacheHits |-> 0, Loads |-> 0, LoadsDeduped |-> 0,
                LocalLoadErrs |-> 0, LocalLoads |-> 0]
    /\ m = [k \in Keys |-> 0]
    /\ calls = << >>
    /\ pc = [t \in Threads |-> "idle"]
    /\ key = [t \in Threads |-> <<1>>]
    /\ dest = [t \in Threads |-> NilSink]
    /\ loc = [t \in Threads |-> ZeroLoc]
    /\ ret = [t \in Threads |-> <<>>]
    /\ hist = [t \in Threads |-> ZeroHist]
    /\ ghost = [loads |-> [k \in Keys |-> 0], nwave |-> [k \in Keys |-> 0],
                fails |-> 0, oks |-> 0, evicted |-> {},
                made |-> [k \in Keys |-> {}], miss0 |-> 0]
    /\ stores = [n \in Names |-> 0]
    /\ objs = << >>
    /\ mu = [w |-> 0, r |-> {}]
    /\ reg = [t \in Threads |-> ZeroReg]
    /\ held = [t \in Threads |-> {}]
    /\ parent = [t \in Threads |-> 0]
    /\ heap = << >>
    /\ sink = NoSink
    /\ cached = << >>
    /\ lbuf = 0
    /\ obs = [last |-> << >>, ok |-> TRUE, frozen |-> << >>, n |-> 0]

\* ----------------------------------------------------------- cache wrapper
\* cache.get, one critical section: nget++, lru.Get, nhit++ on success.
cacheGet(c, k) ==
    IF c.lruNil \/ ~LruHas(c.ll, k)
    THEN [cache |-> [c EXCEPT !.nget = @ + 1], value |-> ZeroView, ok |-> FALSE]
    ELSE [cache |-> [c EXCEPT !.nget = @ + 1, !.nhit = @ + 1,
                              !.ll = LruGet(c.ll, k)],
          value |-> LruValue(c.ll, k), ok |-> TRUE]

\* cache.add, one critical section: lazily build the lru, lru.Add, then
\* nbytes += len(key) + value.Len().
cacheAdd(c, k, v) ==
    [c EXCEPT !.lruNil = FALSE,
              !.ll = LruAdd(c.ll, k, v),
              !.nbytes = @ + Len(k) + ViewLen(v)]

\* Faulty variant: the lru drops the entry without calling OnEvicted
cacheRemoveOldestNoCallback(c) ==
    IF c.lruNil \/ Len(c.ll) = 0
    THEN c
    ELSE [c EXCEPT !.ll = SubSeq(c.ll, 1, Len(c.ll) - 1)]

\* cache.removeOldest, one critical section: lru.RemoveOldest drops the
\* least recent entry and calls OnEvicted, which lowers nbytes and counts.
cacheRemoveOldest(c) ==
    IF c.lruNil \/ Len(c.ll) = 0
    THEN c
    ELSE LET e == c.ll[Len(c.ll)] IN
         [c EXCEPT !.ll = SubSeq(c.ll, 1, Len(c.ll) - 1),
                   !.nbytes = @ - (Len(e.key) + ViewLen(e.value)),
                   !.nevict = @ + 1]

\* cache.items
cacheItems(c) == IF c.lruNil THEN 0 ELSE Len(c.ll)

\* Faulty variant: the lookup never finds anything
lookupCacheMiss(budget, c, k) == [cache |-> c, value |-> ZeroView, ok |-> FALSE]

\* Store.lookupCache: a Store with cacheBytes <= 0 never calls cache.get.
lookupCache(budget, c, k) ==
    IF budget <= 0
    THEN [cache |-> c, value |-> ZeroView, ok |-> FALSE]
    ELSE cacheGet(c, k)

\* Faulty variant: populateCache without its guard for a disabled cache
populateSkipsNever(budget) == FALSE

\* Store.populateCache up to its loop: cacheBytes <= 0 returns at once.
populateSkips(budget) == budget <= 0

\* Faulty variant: the trim loop stops one byte over the budget
trimDoneOffByOne(nbytes, budget) == nbytes <= budget + 1

\* The loop test of Store.populateCache: return once bytes() <= cacheBytes.
trimDone(nbytes, budget) == nbytes <= budget

\* ----------------------------------------------------------------- Store.Get
\* Faulty variant: Get without its nil check
destAbsentNever(d) == FALSE

\* Get, lines 90-93: count the call, refuse a nil dest.
destAbsent(d) == d = NilSink

Get(t, k, d) ==
    /\ pc[t] = "idle"
    /\ Stats.Gets < MaxGets
    /\ Stats' = [Stats EXCEPT !.Gets = @ + 1]
    /\ key' = [key EXCEPT ![t] = k]
    /\ dest' = [dest EXCEPT ![t] = d]
    /\ loc' = [loc EXCEPT ![t] = ZeroLoc]
    /\ hist' = [hist EXCEPT ![t] =
                  [ZeroHist EXCEPT !.after =
                     \E u \in Threads : /\ pc[u] = "idle"
                                        /\ ret[u] = <<NoErr>>
                                        /\ key[u] = k]]
    /\ IF destAbsent(d)
       THEN /\ pc' = pc
            /\ ret' = [ret EXCEPT ![t] = <<ErrNilDest>>]
            /\ ghost' = ghost
       ELSE /\ pc' = [pc EXCEPT ![t] = "lookup"]
            /\ ret' = [ret EXCEPT ![t] = <<>>]
            /\ ghost' = ghost
    /\ UNCHANGED <<cacheBytes, cache, m, calls>>

\* Get, line 94: the first cache lookup.
Lookup(t) ==
    /\ pc[t] = "lookup"
    /\ LET r == lookupCache(cacheBytes, cache, key[t]) IN
        /\ cache' = r.cache
        /\ loc' = [loc EXCEPT ![t].value = r.value, ![t].cacheHit = r.ok]
        /\ hist' = [hist EXCEPT ![t].hit0 = r.ok,
                                ![t].wave = ~r.ok /\ ghost.loads[key[t]] = 0]
        /\ ghost' = [ghost EXCEPT !.nwave[key[t]] =
                       IF ~r.ok /\ ghost.loads[key[t]] = 0 THEN @ + 1 ELSE @,
                                   !.miss0 = IF r.ok THEN @ ELSE @ + 1]
        /\ pc' = [pc EXCEPT ![t] = IF r.ok THEN "hit" ELSE "load"]
    /\ UNCHANGED <<cacheBytes, Stats, m, calls, key, dest, ret>>

\* Get, lines 96-99: a hit is counted, the cached view is written into dest
\* through setSinkView, and Get returns.
Hit(t) ==
    /\ pc[t] = "hit"
    /\ Stats' = [Stats EXCEPT !.CacheHits = @ + 1]
    /\ dest' = [dest EXCEPT ![t] = setSinkView(dest[t], loc[t].value)]
    /\ hist' = [hist EXCEPT ![t].sets = @ + 1]
    /\ ret' = [ret EXCEPT ![t] = <<NoErr>>]
    /\ pc' = [pc EXCEPT ![t] = "idle"]
    /\ UNCHANGED <<cacheBytes, cache, m, calls, key, loc, ghost>>

\* Faulty variant: Get takes dest for populated whenever the load succeeded
needsSetViewNever(err, populated) == FALSE

\* Faulty variant: Get writes the view into dest after every successful load
needsSetViewAlways(err, populated) == err = NoErr

\* Get, lines 103-109: after a load without error, dest is still to be
\* written unless the loader populated it.
needsSetView(err, populated) == err = NoErr /\ ~populated

\* load, lines 133-136, and Get, lines 102-109, once Do has returned
\* (val, err): an error is returned as it is; a dest the loader populated is
\* left alone; otherwise the view is written into dest through setSinkView.
ReturnFromLoad(t, val, err) ==
    /\ loc' = [loc EXCEPT ![t].doVal = val, ![t].doErr = err,
                          ![t].value = IF err = NoErr THEN val[1] ELSE @]
    /\ IF needsSetView(err, loc[t].destPopulated)
       THEN /\ dest' = [dest EXCEPT ![t] = setSinkView(dest[t], val[1])]
            /\ hist' = [hist EXCEPT ![t].sets = @ + 1]
       ELSE UNCHANGED <<dest, hist>>
    /\ ret' = [ret EXCEPT ![t] = <<err>>]
    /\ pc' = [pc EXCEPT ![t] = "idle"]
    /\ ghost' = ghost

\* Faulty variant: load enters the deduplication unit without counting
LoadEnterUncounted(t) ==
    /\ pc[t] = "load"
    /\ pc' = [pc EXCEPT ![t] = "do"]
    /\ UNCHANGED <<cacheBytes, cache, Stats, m, calls, key, dest, loc, ret, hist, ghost>>

\* load, line 114: a miss is counted before the deduplication unit is entered.
LoadEnter(t) ==
    /\ pc[t] = "load"
    /\ Stats' = [Stats EXCEPT !.Loads = @ + 1]
    /\ pc' = [pc EXCEPT ![t] = "do"]
    /\ UNCHANGED <<cacheBytes, cache, m, calls, key, dest, loc, ret, hist, ghost>>

\* ------------------------------------------------------------ singleflight Do
\* Faulty variant: Do never finds the record of a call in flight
hasCallNever(mm, k) == FALSE

\* Do, line 27: is there a call record for the key?
hasCall(mm, k) == mm[k] # 0

\* Faulty variant: a caller that found a record runs the work function as well
joinerRunsFn == "fn"

\* Do, lines 28-30: a caller that found a record waits for it.
joinerGoesTo == "wait"

\* Do, lines 23-36, one critical section under s.mu: join the record found
\* for the key, or register a new one with wg.Add(1).
DoEnter(t) ==
    /\ pc[t] = "do"
    /\ IF hasCall(m, key[t])
       THEN /\ loc' = [loc EXCEPT ![t].c = m[key[t]]]
            /\ hist' = [hist EXCEPT ![t].joined = TRUE,
                                    ![t].stale = (calls[m[key[t]]].wg = 0)]
            /\ pc' = [pc EXCEPT ![t] = joinerGoesTo]
            /\ UNCHANGED <<m, calls>>
       ELSE /\ calls' = Append(calls, [wg |-> 1, val |-> <<>>, err |-> NoErr])
            /\ m' = [m EXCEPT ![key[t]] = Len(calls) + 1]
            /\ loc' = [loc EXCEPT ![t].c = Len(calls) + 1]
            /\ hist' = [hist EXCEPT ![t].fnRan = TRUE]
            /\ pc' = [pc EXCEPT ![t] = "fn"]
    /\ UNCHANGED <<cacheBytes, cache, Stats, key, dest, ret, ghost>>

\* Do, lines 29-30: c.wg.Wait() returns once the counter is zero; the
\* waiter returns the record's val and err to load, and load to Get.
DoWait(t) ==
    /\ pc[t] = "wait"
    /\ calls[loc[t].c].wg = 0
    /\ ReturnFromLoad(t, calls[loc[t].c].val, calls[loc[t].c].err)
    /\ UNCHANGED <<cacheBytes, cache, Stats, m, calls, key>>

\* Faulty variant: the result is recorded but wg.Done() is not called
DoDoneNoSignal(t) ==
    /\ pc[t] = "dodone"
    /\ calls' = [calls EXCEPT ![loc[t].c] =
                   [wg |-> 1, val |-> loc[t].fnVal, err |-> loc[t].fnErr]]
    /\ pc' = [pc EXCEPT ![t] = "dodelete"]
    /\ UNCHANGED <<cacheBytes, cache, Stats, m, key, dest, loc, ret, hist, ghost>>

\* Do, lines 37-38: c.val, c.err = fn(); c.wg.Done().
DoDone(t) ==
    /\ pc[t] = "dodone"
    /\ calls' = [calls EXCEPT ![loc[t].c] =
                   [wg |-> 0, val |-> loc[t].fnVal, err |-> loc[t].fnErr]]
    /\ pc' = [pc EXCEPT ![t] = "dodelete"]
    /\ UNCHANGED <<cacheBytes, cache, Stats, m, key, dest, loc, ret, hist, ghost>>

\* Do, line 41: the key's entry is deleted from the registry.
unregister(mm, k) == [mm EXCEPT ![k] = 0]

\* Do, lines 40-44: under s.mu again, delete(s.m, key); return c.val, c.err
\* to load, and load to Get.
DoDelete(t) ==
    /\ pc[t] = "dodelete"
    /\ m' = unregister(m, key[t])
    /\ ReturnFromLoad(t, calls[loc[t].c].val, calls[loc[t].c].err)
    /\ UNCHANGED <<cacheBytes, cache, Stats, calls, key>>

\* ------------------------------------------- the work function of Store.load
\* Faulty variant: the closure goes to the loader without looking again
FnRecheckSkipped(t) ==
    /\ pc[t] = "fn"
    /\ pc' = [pc EXCEPT ![t] = "fnmiss"]
    /\ UNCHANGED <<cacheBytes, cache, Stats, m, calls, key, dest, loc, ret, hist, ghost>>

\* load, line 116: the closure looks the key up again.
FnRecheck(t) ==
    /\ pc[t] = "fn"
    /\ LET r == lookupCache(cacheBytes, cache, key[t]) IN
        /\ cache' = r.cache
        /\ loc' = [loc EXCEPT ![t].fnVal = IF r.ok THEN <<r.value>> ELSE <<>>]
        /\ pc' = [pc EXCEPT ![t] = IF r.ok THEN "fnhit" ELSE "fnmiss"]
    /\ UNCHANGED <<cacheBytes, Stats, m, calls, key, dest, ret, hist, ghost>>

\* load, lines 117-118: a hit at the re-check is counted and returned.
FnHitCount(t) ==
    /\ pc[t] = "fnhit"
    /\ Stats' = [Stats EXCEPT !.CacheHits = @ + 1]
    /\ pc' = [pc EXCEPT ![t] = "dodone"]
    /\ UNCHANGED <<cacheBytes, cache, m, calls, key, dest, loc, ret, hist, ghost>>

\* load, lines 120-123: count the deduplicated load and call the loader.
FnMissCount(t) ==
    /\ pc[t] = "fnmiss"
    /\ Stats' = [Stats EXCEPT !.LoadsDeduped = @ + 1]
    /\ hist' = [hist EXCEPT ![t].ran = @ + 1]
    /\ ghost' = [ghost EXCEPT !.loads[key[t]] = @ + 1]
    /\ pc' = [pc EXCEPT ![t] = "loader"]
    /\ UNCHANGED <<cacheBytes, cache, m, calls, key, dest, loc, ret>>

\* getLocally, lines 139-145: the loader returns. It either wrote a payload
\* with dest.SetString and returned nil, after which dest.view() is taken,
\* or it returned an error.
LoaderReturn(t) ==
    /\ pc[t] = "loader"
    /\ \/ \E v \in Values :
            /\ dest' = [dest EXCEPT ![t] = SinkSetString(dest[t], v)]
            /\ loc' = [loc EXCEPT ![t].value = SinkView(dest'[t])]
            /\ hist' = [hist EXCEPT ![t].out = <<NoErr, v>>]
            /\ ghost' = [ghost EXCEPT !.oks = @ + 1,
                                      !.made[key[t]] = @ \cup {v}]
            /\ pc' = [pc EXCEPT ![t] = "loadok"]
       \/ \E e \in LoaderErrs :
            /\ loc' = [loc EXCEPT ![t].err = e]
            /\ hist' = [hist EXCEPT ![t].out = <<e>>]
            /\ ghost' = [ghost EXCEPT !.fails = @ + 1]
            /\ pc' = [pc EXCEPT ![t] = "loaderr"]
            /\ dest' = dest
    /\ UNCHANGED <<cacheBytes, cache, Stats, m, calls, key, ret>>

\* Faulty variant: a failed load is counted as a successful one
countLoadErrAsLoad(st) == [st EXCEPT !.LocalLoads = @ + 1]

\* load, line 125: s.Stats.LocalLoadErrs.Add(1)
countLoadErr(st) == [st EXCEPT !.LocalLoadErrs = @ + 1]

\* load, lines 124-127: a loader error is counted and returned as (nil, err).
LoadErrCount(t) ==
    /\ pc[t] = "loaderr"
    /\ Stats' = countLoadErr(Stats)
    /\ loc' = [loc EXCEPT ![t].fnVal = <<>>, ![t].fnErr = loc[t].err]
    /\ pc' = [pc EXCEPT ![t] = "dodone"]
    /\ UNCHANGED <<cacheBytes, cache, m, calls, key, dest, ret, hist, ghost>>

\* load, lines 128-130: a successful load is counted, dest is marked
\* populated, and populateCache is entered: it returns at once for a
\* disabled cache (lines 156-158).
LoadOkCount(t) ==
    /\ pc[t] = "loadok"
    /\ Stats' = [Stats EXCEPT !.LocalLoads = @ + 1]
    /\ IF populateSkips(cacheBytes)
       THEN /\ loc' = [loc EXCEPT ![t].destPopulated = TRUE,
                                  ![t].fnVal = <<loc[t].value>>]
            /\ pc' = [pc EXCEPT ![t] = "dodone"]
       ELSE /\ loc' = [loc EXCEPT ![t].destPopulated = TRUE]
            /\ pc' = [pc EXCEPT ![t] = "populate"]
    /\ UNCHANGED <<cacheBytes, cache, m, calls, key, dest, ret, hist, ghost>>

\* populateCache, line 159: cache.add.
PopulateAdd(t) ==
    /\ pc[t] = "populate"
    /\ cache' = cacheAdd(cache, key[t], loc[t].value)
    /\ pc' = [pc EXCEPT ![t] = "trim"]
    /\ UNCHANGED <<cacheBytes, Stats, m, calls, key, dest, loc, ret, hist, ghost>>

\* populateCache, lines 162-165: read cache.bytes() and compare to the budget.
TrimCheck(t) ==
    /\ pc[t] = "trim"
    /\ IF trimDone(cache.nbytes, cacheBytes)
       THEN /\ loc' = [loc EXCEPT ![t].fnVal = <<loc[t].value>>]
            /\ pc' = [pc EXCEPT ![t] = "dodone"]
       ELSE /\ pc' = [pc EXCEPT ![t] = "evict"]
            /\ loc' = loc
    /\ UNCHANGED <<cacheBytes, cache, Stats, m, calls, key, dest, ret, hist, ghost>>

\* populateCache, lines 167-168: evict the oldest entry, then loop.
TrimEvict(t) ==
    /\ pc[t] = "evict"
    /\ cache' = cacheRemoveOldest(cache)
    /\ ghost' = [ghost EXCEPT !.evicted =
                   IF cacheItems(cache) = 0 THEN @
                   ELSE @ \cup {cache.ll[Len(cache.ll)].key}]
    /\ pc' = [pc EXCEPT ![t] = "trim"]
    /\ UNCHANGED <<cacheBytes, Stats, m, calls, key, dest, loc, ret, hist>>

\* ------------------------------------------------------- NewStore, GetStore
\* Faulty variant: NewStore without its check for a nil Getter
getterAbsentNever(g) == FALSE

\* NewStore, line 38
getterAbsent(g) == g = NilGetter

\* NewStore, lines 38-40: a nil Getter panics before the lock is touched.
\* The panic ends the call; a caller that recovers goes on.
NewStore(t, name, cb, getter) ==
    /\ reg[t].pc = "idle"
    /\ IF getterAbsent(getter)
       THEN reg' = [reg EXCEPT ![t] =
                      [ZeroReg EXCEPT !.op = "NewStore", !.name = name,
                                      !.out = <<"panic", PanicNilGetter>>]]
       ELSE reg' = [reg EXCEPT ![t] =
                      [pc |-> "ns_lock", op |-> "NewStore", name |-> name,
                       cacheBytes |-> cb, getter |-> getter, out |-> <<>>]]
    /\ UNCHANGED <<stores, objs, mu>>

\* NewStore, line 41: mu.Lock() waits until nobody holds mu.
NewStoreLock(t) ==
    /\ reg[t].pc = "ns_lock"
    /\ mu.w = 0 /\ mu.r = {}
    /\ mu' = [mu EXCEPT !.w = t]
    /\ reg' = [reg EXCEPT ![t].pc = "ns_body"]
    /\ UNCHANGED <<stores, objs>>

\* Faulty variant: NewStore without its check for a registered name
isDupNever(st, name) == FALSE

\* NewStore, line 44: _, dup := stores[name]
isDup(st, name) == st[name] # 0

\* Faulty variant: the lock is released on return only, not on a panic
deferredUnlockOnReturnOnly(l, panics) == IF panics THEN l ELSE [l EXCEPT !.w = 0]

\* NewStore, line 42: defer mu.Unlock() runs when NewStore returns and when
\* it panics.
deferredUnlock(l, panics) == [l EXCEPT !.w = 0]

\* NewStore, lines 44-55, under mu: a registered name panics; otherwise the
\* Store is built and stored under its name. Either way the deferred
\* Unlock runs.
NewStoreBody(t) ==
    /\ reg[t].pc = "ns_body"
    /\ IF isDup(stores, reg[t].name)
       THEN /\ reg' = [reg EXCEPT ![t].pc = "idle", ![t].cacheBytes = 0,
                                  ![t].out = <<"panic", PanicDuplicate(reg[t].name)>>]
            /\ mu' = deferredUnlock(mu, TRUE)
            /\ UNCHANGED <<stores, objs>>
       ELSE /\ objs' = Append(objs, [name |-> reg[t].name,
                                     getter |-> reg[t].getter,
                                     cacheBytes |-> reg[t].cacheBytes])
            /\ stores' = [stores EXCEPT ![reg[t].name] = Len(objs) + 1]
            /\ reg' = [reg EXCEPT ![t].pc = "idle", ![t].cacheBytes = 0,
                                  ![t].out = <<"ok", Len(objs) + 1>>]
            /\ mu' = deferredUnlock(mu, FALSE)

\* GetStore is called.
GetStore(t, name) ==
    /\ reg[t].pc = "idle"
    /\ reg' = [reg EXCEPT ![t] =
                  [ZeroReg EXCEPT !.pc = "gs_rlock", !.op = "GetStore",
                                  !.name = name]]
    /\ UNCHANGED <<stores, objs, mu>>

\* GetStore, line 30: mu.RLock() waits until nobody holds mu for writing.
GetStoreRLock(t) ==
    /\ reg[t].pc = "gs_rlock"
    /\ mu.w = 0
    /\ mu' = [mu EXCEPT !.r = @ \cup {t}]
    /\ reg' = [reg EXCEPT ![t].pc = "gs_read"]
    /\ UNCHANGED <<stores, objs>>

\* GetStore, lines 31-33: s := stores[name]; mu.RUnlock(); return s.
GetStoreRead(t) ==
    /\ reg[t].pc = "gs_read"
    /\ reg' = [reg EXCEPT ![t].pc = "idle",
                          ![t].out = <<"ok", stores[reg[t].name]>>]
    /\ mu' = [mu EXCEPT !.r = @ \ {t}]
    /\ UNCHANGED <<stores, objs>>

\* --------------------------------------------------------------- the system
Sinks == {NilSink, StringSink}

\* One Store and the goroutines calling its Get.
Next ==
    \E t \in Threads :
        \/ \E k \in Keys, d \in Sinks : Get(t, k, d) /\ UNCHANGED <<regVars, lockVars, sinkVars>>
        \/ Lookup(t) /\ UNCHANGED <<regVars, lockVars, sinkVars>>
        \/ Hit(t) /\ UNCHANGED <<regVars, lockVars, sinkVars>>
        \/ LoadEnter(t) /\ UNCHANGED <<regVars, lockVars, sinkVars>>
        \/ DoEnter(t) /\ UNCHANGED <<regVars, lockVars, sinkVars>>
        \/ DoWait(t) /\ UNCHANGED <<regVars, lockVars, sinkVars>>
        \/ FnRecheck(t) /\ UNCHANGED <<regVars, lockVars, sinkVars>>
        \/ FnHitCount(t) /\ UNCHANGED <<regVars, lockVars, sinkVars>>
        \/ FnMissCount(t) /\ UNCHANGED <<regVars, lockVars, sinkVars>>
        \/ LoaderReturn(t) /\ UNCHANGED <<regVars, lockVars, sinkVars>>
        \/ LoadErrCount(t) /\ UNCHANGED <<regVars, lockVars, sinkVars>>
        \/ LoadOkCount(t) /\ UNCHANGED <<regVars, lockVars, sinkVars>>
        \/ PopulateAdd(t) /\ UNCHANGED <<regVars, lockVars, sinkVars>>
        \/ TrimCheck(t) /\ UNCHANGED <<regVars, lockVars, sinkVars>>
        \/ TrimEvict(t) /\ UNCHANGED <<regVars, lockVars, sinkVars>>
        \/ DoDone(t) /\ UNCHANGED <<regVars, lockVars, sinkVars>>
        \/ DoDelete(t) /\ UNCHANGED <<regVars, lockVars, sinkVars>>

Spec == Init /\ [][Next]_vars

\* The registry and the goroutines calling NewStore and GetStore.
RegNext ==
    \E t \in Threads :
        \/ \E name \in Names, cb \in Budgets, g \in Getters :
              NewStore(t, name, cb, g) /\ UNCHANGED <<storeVars, lockVars, sinkVars>>
        \/ NewStoreLock(t) /\ UNCHANGED <<storeVars, lockVars, sinkVars>>
        \/ NewStoreBody(t) /\ UNCHANGED <<storeVars, lockVars, sinkVars>>
        \/ \E name \in Names : GetStore(t, name) /\ UNCHANGED <<storeVars, lockVars, sinkVars>>
        \/ GetStoreRLock(t) /\ UNCHANGED <<storeVars, lockVars, sinkVars>>
        \/ GetStoreRead(t) /\ UNCHANGED <<storeVars, lockVars, sinkVars>>

RegInit == Init /\ cacheBytes = MaxCacheBytes

RegSpec == RegInit /\ [][RegNext]_vars

\* ------------------------------------------- the Store with its locks shown
\* The steps of the Get pipeline are those above; here the mutexes they run
\* under are state. A goroutine takes the lock of its next critical section
\* in a step of its own (Lock / RLock return) and gives it back at the end
\* of the section (Unlock / RUnlock, deferred or not).

\* The lock the code takes next at each place:
\*   "lookup", "fn"  cache.get, c.mu.Lock() (cache.go:51), not reached when
\*                   cacheBytes <= 0 (store.go:148-150)
\*   "populate"      cache.add, c.mu.Lock() (cache.go:35)
\*   "trim"          cache.bytes, c.mu.RLock() (cache.go:74)
\*   "evict"         cache.removeOldest, c.mu.Lock() (cache.go:66)
\*   "do"            Do, s.mu.Lock() (singleflight.go:23)
\*   "dodelete"      Do, s.mu.Lock() (singleflight.go:40)
lockAt(p, budget) ==
    CASE p \in {"lookup", "fn"} -> IF budget <= 0 THEN "none" ELSE "cacheW"
      [] p \in {"populate", "evict"} -> "cacheW"
      [] p = "trim" -> "cacheR"
      [] p \in {"do", "dodelete"} -> "sf"
      [] OTHER -> "none"

Needed(t) ==
    IF lockAt(pc[t], cacheBytes) = "none" THEN {} ELSE {lockAt(pc[t], cacheBytes)}

\* sync.Mutex and sync.RWMutex: Lock waits for every holder, RLock for a
\* writer only.
Available(t, l) ==
    CASE l = "sf" -> \A u \in Threads : "sf" \notin held[u]
      [] l = "cacheW" -> \A u \in Threads : held[u] \cap {"cacheW", "cacheR"} = {}
      [] l = "cacheR" -> \A u \in Threads : "cacheW" \notin held[u]
      [] OTHER -> FALSE

\* Lock / RLock returns.
Acquire(t) ==
    /\ Needed(t) # {}
    /\ ~(Needed(t) \subseteq held[t])
    /\ Available(t, lockAt(pc[t], cacheBytes))
    /\ held' = [held EXCEPT ![t] = @ \cup Needed(t)]
    /\ UNCHANGED <<storeVars, regVars, sinkVars, parent>>

\* Faulty variant: Do calls the work function and waits without unlocking
keptAfterDoEnter(p) == IF p = "do" THEN {"sf"} ELSE {}

\* What a goroutine still holds when the step at p is over: every critical
\* section unlocks before it returns (cache.go:36, 52, 67, 75;
\* singleflight.go:28, 35, 42).
keptAfter(p) == {}

\* the step at pc[t] runs once the lock of its critical section is held
\* and ends with the section's unlock
Section(t) ==
    /\ Needed(t) \subseteq held[t]
    /\ held' = [held EXCEPT ![t] = (@ \ Needed(t)) \cup keptAfter(pc[t])]

\* Do, lines 40-42: under s.mu, delete(s.m, key).
LockedDoDelete(t) ==
    /\ pc[t] = "dodelete"
    /\ m' = unregister(m, key[t])
    /\ pc' = [pc EXCEPT ![t] = "doret"]
    /\ UNCHANGED <<cacheBytes, cache, Stats, calls, key, dest, loc, ret, hist, ghost>>

\* Do, line 44, load, lines 133-136, Get, lines 102-109: the owner of the
\* record returns c.val, c.err.
DoReturn(t) ==
    /\ pc[t] = "doret"
    /\ ReturnFromLoad(t, calls[loc[t].c].val, calls[loc[t].c].err)
    /\ UNCHANGED <<cacheBytes, cache, Stats, m, calls, key>>

\* The keys the loader of a key asks the same Store for while it runs: a
\* Getter may call Store.Get; the requests here never lead back to a key
\* whose load is waiting for them.
Callees(k) == {k2 \in Keys : Len(k2) > Len(k)}

\* a frame is free for a new Get
FrameFree(u) == pc[u] = "idle" /\ parent[u] = 0

\* the Gets issued by the loader of frame t
Children(t) == {u \in Threads : parent[u] = t}

\* a goroutine calls Get
TopGet(t) ==
    /\ FrameFree(t)
    /\ \E k \in Keys, d \in Sinks : Get(t, k, d)
    /\ UNCHANGED <<regVars, lockVars, sinkVars>>

\* getLocally, line 140: the Getter, while it runs, calls Get of the same
\* Store for another key.
LoaderCallsGet(t) ==
    /\ pc[t] = "loader"
    /\ Children(t) = {}
    /\ \E u \in Threads \ {t}, k \in Callees(key[t]) :
          /\ FrameFree(u)
          /\ Get(u, k, StringSink)
          /\ parent' = [parent EXCEPT ![u] = t]
    /\ UNCHANGED <<regVars, sinkVars, held>>

\* getLocally, lines 140-144: the Getter returns, after the Get it issued,
\* if any, has returned.
LoaderReturns(t) ==
    /\ \A u \in Children(t) : pc[u] = "idle"
    /\ LoaderReturn(t)
    /\ parent' = [u \in Threads |-> IF parent[u] = t THEN 0 ELSE parent[u]]
    /\ UNCHANGED <<regVars, sinkVars, held>>

\* the steps of frame t that the scheduler owes it: everything but the
\* calls of Get, which the callers are free to make or not
Pipeline(t) ==
    \/ Section(t) /\ Lookup(t) /\ UNCHANGED <<regVars, sinkVars, parent>>
    \/ Section(t) /\ Hit(t) /\ UNCHANGED <<regVars, sinkVars, parent>>
    \/ Section(t) /\ LoadEnter(t) /\ UNCHANGED <<regVars, sinkVars, parent>>
    \/ Section(t) /\ DoEnter(t) /\ UNCHANGED <<regVars, sinkVars, parent>>
    \/ Section(t) /\ DoWait(t) /\ UNCHANGED <<regVars, sinkVars, parent>>
    \/ Section(t) /\ FnRecheck(t) /\ UNCHANGED <<regVars, sinkVars, parent>>
    \/ Section(t) /\ FnHitCount(t) /\ UNCHANGED <<regVars, sinkVars, parent>>
    \/ Section(t) /\ FnMissCount(t) /\ UNCHANGED <<regVars, sinkVars, parent>>
    \/ LoaderReturns(t)
    \/ Section(t) /\ LoadErrCount(t) /\ UNCHANGED <<regVars, sinkVars, parent>>
    \/ Section(t) /\ LoadOkCount(t) /\ UNCHANGED <<regVars, sinkVars, parent>>
    \/ Section(t) /\ PopulateAdd(t) /\ UNCHANGED <<regVars, sinkVars, parent>>
    \/ Section(t) /\ TrimCheck(t) /\ UNCHANGED <<regVars, sinkVars, parent>>
    \/ Section(t) /\ TrimEvict(t) /\ UNCHANGED <<regVars, sinkVars, parent>>
    \/ Section(t) /\ DoDone(t) /\ UNCHANGED <<regVars, sinkVars, parent>>
    \/ Section(t) /\ LockedDoDelete(t) /\ UNCHANGED <<regVars, sinkVars, parent>>
    \/ Section(t) /\ DoReturn(t) /\ UNCHANGED <<regVars, sinkVars, parent>>

LockNext ==
    \E t \in Threads :
        \/ TopGet(t)
        \/ LoaderCallsGet(t)
        \/ Acquire(t)
        \/ Pipeline(t)

LockSpec == Init /\ [][LockNext]_vars

\* The scheduling the Go runtime gives: a goroutine that can run its next
\* step is run in the end (weak fairness of each frame's pipeline, the
\* return of its loader included), and a goroutine waiting in Lock or RLock
\* gets the mutex in the end however often others take it meanwhile (strong
\* fairness of Acquire: sync.Mutex hands a starving waiter the lock).
Fairness ==
    \A t \in Threads : WF_vars(Pipeline(t)) /\ SF_vars(Acquire(t))

LiveSpec == LockSpec /\ Fairness

\* ------------------------------------------- one key's value through sinks
\* A loader writes a sink; the view of the sink is cached; later Gets of
\* the key are served from the cache into sinks of their own; callers
\* and loaders go on using the buffers they own.

\* StringSink, ByteViewSink, AllocatingByteSliceSink, JSONSink: a Get is
\* called with a new sink and misses.
MakeSink(sk) ==
    /\ sink = NoSink
    /\ sink' = sk
    /\ UNCHANGED <<heap, cached, lbuf, obs>>

\* what a call leaves behind: r its outcome, payload what it was to write
Called(r, payload) ==
    /\ sink' = r.sink
    /\ heap' = r.heap
    /\ obs' = [obs EXCEPT !.last = IF r.ok THEN <<payload>> ELSE @,
                          !.ok = r.ok, !.n = @ + 1]

\* the loader calls dest.SetString(str)
LoaderSetString(str) ==
    /\ sink # NoSink /\ obs.n < MaxSinkCalls
    /\ Called(SetString(sink, heap, str), str)
    /\ UNCHANGED <<cached, lbuf>>

\* the loader calls dest.SetBytes(b) with a buffer b of its own
LoaderSetBytes(bytes) ==
    /\ sink # NoSink /\ obs.n < MaxSinkCalls
    /\ LET h1 == Alloc(heap, bytes) IN
        /\ Called(SetBytes(sink, h1, Len(h1)), bytes)
        /\ lbuf' = Len(h1)
    /\ cached' = cached

\* the loader calls dest.SetJSON(jv)
LoaderSetJSON(jv) ==
    /\ sink # NoSink /\ obs.n < MaxSinkCalls
    /\ Called(SetJSON(sink, heap, jv), Marshal(jv).b)
    /\ UNCHANGED <<cached, lbuf>>

\* getLocally, line 144, and populateCache, line 159: after the loader
\* returned nil, the view of the sink goes into the cache.
Populate ==
    /\ sink # NoSink /\ obs.ok /\ obs.last # << >>
    /\ cached # <<view(sink)>>
    /\ cached' = <<view(sink)>>
    /\ obs' = [obs EXCEPT !.frozen = Content(heap, view(sink))]
    /\ UNCHANGED <<heap, sink, lbuf>>

\* Get, lines 94-98: a later Get, with a new sink sk of its own, hits and
\* hands the cached view to its sink through setSinkView.
HitSetView(sk) ==
    /\ cached # << >> /\ obs.n < MaxSinkCalls
    /\ LET r == setSinkViewRef(sk, heap, cached[1]) IN
        /\ sink' = r.sink
        /\ heap' = r.heap
        /\ obs' = [obs EXCEPT !.last = IF r.ok THEN <<Content(heap, cached[1])>>
                                       ELSE << >>,
                              !.ok = r.ok, !.n = @ + 1]
    /\ UNCHANGED <<cached, lbuf>>

\* the bytes after a write of 0 at their first place
Scribbled(bytes) == [bytes EXCEPT ![1] = 0]

\* the caller writes into the slice it got through its
\* AllocatingByteSliceSink
CallerMutates ==
    /\ sink.kind = "alloc" /\ sink.dst # 0
    /\ Len(heap[sink.dst]) > 0
    /\ heap[sink.dst] # Scribbled(heap[sink.dst])
    /\ heap' = [heap EXCEPT ![sink.dst] = Scribbled(@)]
    /\ UNCHANGED <<sink, cached, lbuf, obs>>

\* the loader writes into the buffer it passed to SetBytes
LoaderMutates ==
    /\ lbuf # 0
    /\ Len(heap[lbuf]) > 0
    /\ heap[lbuf] # Scribbled(heap[lbuf])
    /\ heap' = [heap EXCEPT ![lbuf] = Scribbled(@)]
    /\ UNCHANGED <<sink, cached, lbuf, obs>>

SinkNext ==
    \/ \E sk \in NewSinks : MakeSink(sk) /\ UNCHANGED <<storeVars, regVars, lockVars>>
    \/ \E str \in Texts : LoaderSetString(str) /\ UNCHANGED <<storeVars, regVars, lockVars>>
    \/ \E bytes \in Texts : LoaderSetBytes(bytes) /\ UNCHANGED <<storeVars, regVars, lockVars>>
    \/ \E jv \in JsonValues : LoaderSetJSON(jv) /\ UNCHANGED <<storeVars, regVars, lockVars>>
    \/ Populate /\ UNCHANGED <<storeVars, regVars, lockVars>>
    \/ \E sk \in NewSinks : HitSetView(sk) /\ UNCHANGED <<storeVars, regVars, lockVars>>
    \/ CallerMutates /\ UNCHANGED <<storeVars, regVars, lockVars>>
    \/ LoaderMutates /\ UNCHANGED <<storeVars, regVars, lockVars>>

SinkInit == Init /\ cacheBytes = MaxCacheBytes

SinkSpec == SinkInit /\ [][SinkNext]_vars

\* ------------------------------------------------------------ observations
\* the goroutine's Get has returned
Returned(t) == pc[t] = "idle" /\ ret[t] # <<>>

\* what the caller of a returned Get observes: the error, or the string in
\* the slot of its sink
Observed(t) ==
    IF ret[t][1] = NoErr THEN <<NoErr, dest[t][1].sp>> ELSE <<ret[t][1]>>

\* the goroutines whose current or last Get of k missed the cache before
\* any loader invocation for k had started: N calls in flight together
Wave(k) == {t \in Threads : hist[t].wave /\ key[t] = k}

WaveComplete(k) ==
    /\ Wave(k) # {}
    /\ Cardinality(Wave(k)) = ghost.nwave[k]
    /\ \A t \in Wave(k) : Returned(t)

OneLoadSeenByAll(k) ==
    /\ Cardinality({t \in Wave(k) : hist[t].ran > 0}) = 1
    /\ \A t \in Wave(k) : hist[t].ran <= 1
    /\ \A t, u \in Wave(k) : hist[u].ran > 0 => Observed(t) = hist[u].out

\* ------------------------------------------------------------------ claims
\* C1 (as stated): for every key k, N concurrent Get(k) calls that all arrive
\* while k is not cached result in exactly one loader invocation for k, and
\* all of them observe that invocation's result.
C1_Original ==
    \A k \in Keys : WaveComplete(k) => OneLoadSeenByAll(k)

\* C1 (amended): the same, for N concurrent Get(k) calls that all share one
\* deduplication call record, that is, that all entered Do while the first
\* caller's record was registered.
C1_SharedRecord ==
    \A k \in Keys :
        (WaveComplete(k) /\ \A t, u \in Wave(k) : loc[t].c = loc[u].c)
            => OneLoadSeenByAll(k)

C1_Witness ==
    \E k \in Keys :
        /\ WaveComplete(k)
        /\ Cardinality(Wave(k)) = NumThreads
        /\ \A t, u \in Wave(k) : loc[t].c = loc[u].c
        /\ \E t \in Wave(k) : hist[t].joined /\ ~hist[t].stale

\* C2 (as stated): after a Get(k) returned nil, a later Get(k) with a dest,
\* k not evicted in between, invokes the loader 0 times and is a cache hit that
\* the CacheHits counter counts; Gets of one key on an initially empty
\* cache invoke the loader once in total.
HitsCounted ==
    Stats.CacheHits + Cardinality({t \in Threads : pc[t] \in {"hit", "fnhit"}})
        = cache.nhit

LaterGetHits(t) ==
    (/\ hist[t].after /\ dest[t] # NilSink
     /\ pc[t] # "lookup" /\ key[t] \notin ghost.evicted)
        => (hist[t].hit0 /\ hist[t].ran = 0)

OneLoadWhileResident(k) ==
    (ghost.fails = 0 /\ k \notin ghost.evicted) => ghost.loads[k] <= 1

C2_Original ==
    /\ HitsCounted
    /\ \A t \in Threads : LaterGetHits(t)
    /\ \A k \in Keys : OneLoadWhileResident(k)

\* C2 (amended): the same on a Store whose byte budget is positive, with
\* "not evicted" covering the trim of the entry's own population.
C2_PositiveBudget ==
    cacheBytes > 0 => C2_Original

C2_Witness ==
    \E t \in Threads :
        /\ cacheBytes > 0
        /\ hist[t].after /\ Returned(t) /\ hist[t].hit0
        /\ ghost.loads[key[t]] = 1
        /\ Observed(t)[1] = NoErr /\ Observed(t)[2] \in Values

\* C3: for every key, at most one work function started by Do is executing,
\* and so at most one loader invocation of the Store is executing.
InFn(t) ==
    pc[t] \in {"fn", "fnhit", "fnmiss", "loader", "loaderr", "loadok",
               "populate", "trim", "evict"}

C3_OneInFlight ==
    \A k \in Keys :
        /\ Cardinality({t \in Threads : InFn(t) /\ key[t] = k}) <= 1
        /\ Cardinality({t \in Threads : pc[t] = "loader" /\ key[t] = k}) <= 1

C3_Witness ==
    \E t, u \in Threads :
        /\ t # u /\ key[t] = key[u]
        /\ pc[t] = "loader" /\ pc[u] = "wait"

\* C4: a caller of Do that found a record for its key never runs a work
\* function; it returns only once that record is done, and returns the
\* record's (val, err), so that callers sharing a record return the same.
C4_JoinerSharesResult ==
    \A t \in Threads :
        hist[t].joined =>
            /\ pc[t] \in {"wait", "idle"}
            /\ hist[t].ran = 0
            /\ Returned(t) =>
                /\ calls[loc[t].c].wg = 0
                /\ loc[t].doVal = calls[loc[t].c].val
                /\ loc[t].doErr = calls[loc[t].c].err
                /\ \A u \in Threads :
                     (Returned(u) /\ loc[u].c = loc[t].c) =>
                         (loc[u].doVal = loc[t].doVal /\ loc[u].doErr = loc[t].doErr)

C4_Witness ==
    \E t, u \in Threads :
        /\ t # u /\ loc[t].c = loc[u].c
        /\ Returned(t) /\ Returned(u)
        /\ hist[t].joined /\ ~hist[t].stale /\ hist[u].fnRan

\* C5 (as stated): a Do call for k that begins after the work function of an
\* earlier Do call for k has returned runs a work function of its own and
\* never returns the earlier call's result: no caller of Do ever joins a
\* record that is already done.
C5_FreshAfterReturn ==
    \A t \in Threads : hist[t].joined => ~hist[t].stale

\* C6 (as stated): whenever a Get(k) has returned a loader error to its
\* caller, the call record that error came from is no longer registered for
\* k, so that a retry cannot find it.
C6_FailedRecordRemoved ==
    \A t \in Threads :
        (Returned(t) /\ ret[t][1] \in LoaderErrs) => m[key[t]] # loc[t].c

\* C7: when the loader fails, every Get of that load returns the loader's
\* error as it is, the failing work function changes nothing in the cache,
\* no Get invokes the loader twice, and the failure is counted once in
\* LocalLoadErrs and not in LocalLoads.
FailedLoad(t) == hist[t].out # <<>> /\ hist[t].out[1] # NoErr

ErrCarried(t) ==
    /\ pc[t] = "loaderr" => loc[t].err = hist[t].out[1]
    /\ pc[t] = "dodone" => (loc[t].fnErr = hist[t].out[1] /\ loc[t].fnVal = <<>>)
    /\ pc[t] = "dodelete" =>
          (calls[loc[t].c].err = hist[t].out[1] /\ calls[loc[t].c].val = <<>>)
    /\ Returned(t) => ret[t] = <<hist[t].out[1]>>

C7_Results ==
    /\ \A t \in Threads : FailedLoad(t) => ErrCarried(t)
    /\ \A t \in Threads : hist[t].ran <= 1
    /\ \A t \in Threads :
          (Returned(t) /\ loc[t].c # 0 /\ calls[loc[t].c].err # NoErr) =>
              (ret[t] = <<calls[loc[t].c].err>> /\ ret[t][1] \in LoaderErrs)
    /\ Stats.LocalLoadErrs + Cardinality({t \in Threads : pc[t] = "loaderr"})
          = ghost.fails
    /\ Stats.LocalLoads + Cardinality({t \in Threads : pc[t] = "loadok"})
          = ghost.oks

C7_CacheUntouched ==
    \A t \in Threads :
        (FailedLoad(t) /\ pc[t] # "idle" /\ pc'[t] # pc[t]) => cache' = cache

C7_LoaderError == []C7_Results /\ [][C7_CacheUntouched]_vars

C7_Witness ==
    \E t, u \in Threads :
        /\ t # u /\ loc[t].c = loc[u].c
        /\ FailedLoad(t) /\ hist[u].joined
        /\ Returned(t) /\ Returned(u)
        /\ Stats.LocalLoadErrs = 1 /\ Stats.LocalLoads = 0

\* C8: on a Store with a positive budget, whenever no Get is in progress the
\* tracked byte total of the cache is at most the budget.
Quiescent == \A t \in Threads : pc[t] = "idle"

C8_WithinBudget ==
    (cacheBytes > 0 /\ Quiescent) => cache.nbytes <= cacheBytes

C8_Witness ==
    /\ cacheBytes > 0 /\ Quiescent
    /\ cache.nevict > 0 /\ cacheItems(cache) > 0
    /\ cache.nbytes <= cacheBytes

\* C9 (as stated): on a Store with a budget <= 0 the cache holds no item and
\* is never called, no Get is a cache hit, and every Get with a dest invokes
\* the loader.
CacheNeverUsed ==
    /\ cacheItems(cache) = 0 /\ cache.lruNil
    /\ cache.nget = 0 /\ cache.nhit = 0 /\ cache.nbytes = 0
    /\ Stats.CacheHits = 0
    /\ \A t \in Threads : ~hist[t].hit0

C9_Original ==
    cacheBytes <= 0 =>
        /\ CacheNeverUsed
        /\ \A t \in Threads :
              (Returned(t) /\ dest[t] # NilSink) => hist[t].ran = 1

\* C9 (amended): the same, the last part for every Get with a dest that
\* does not join the call record of another caller's load.
C9_DisabledCache ==
    cacheBytes <= 0 =>
        /\ CacheNeverUsed
        /\ \A t \in Threads :
              (Returned(t) /\ dest[t] # NilSink /\ ~hist[t].joined)
                  => hist[t].ran = 1

C9_Witness ==
    /\ cacheBytes <= 0 /\ Quiescent
    /\ Stats.Gets = MaxGets
    /\ Stats.LocalLoads >= 2
    /\ \E k \in Keys : ghost.loads[k] >= 2

\* C10: a Get with a nil dest counts itself in Gets, returns an error, and
\* does nothing else: the goroutine never enters the pipeline, and the step
\* changes neither the cache, the call registry nor any other counter.
NilDestRefused ==
    \A t \in Threads :
        dest[t] = NilSink =>
            (pc[t] = "idle" /\ ret[t] \in {<<>>, <<ErrNilDest>>})

NilDestStep ==
    (Stats'.Gets # Stats.Gets /\ pc' = pc) =>
        /\ Stats' = [Stats EXCEPT !.Gets = @ + 1]
        /\ UNCHANGED <<cacheBytes, cache, m, calls, ghost>>
        /\ \E t \in Threads :
              ret'[t] = <<ErrNilDest>> /\ dest'[t] = NilSink /\ hist'[t].ran = 0

C10_NilDest == []NilDestRefused /\ [][NilDestStep]_vars

C10_Witness ==
    \E t \in Threads :
        /\ Returned(t) /\ ret[t] = <<ErrNilDest>>
        /\ Stats.Gets = MaxGets /\ Stats.Loads = 0 /\ cache.nget = 0

\* C11: NewStore panics when the Getter is nil or the name is registered, and
\* in both cases leaves the registry unchanged and usable: no name ever holds
\* a second Store, GetStore(name) returns the Store first registered under
\* the name, mu is not left held, and GetStore of a name that is not
\* registered returns nil.
RegIdle(t) == reg[t].pc = "idle"

MuReleased ==
    /\ \A t \in Threads : RegIdle(t) => (mu.w # t /\ t \notin mu.r)
    /\ (\A t \in Threads : RegIdle(t)) => mu = [w |-> 0, r |-> {}]

OneStorePerName ==
    /\ \A i, j \in 1..Len(objs) : objs[i].name = objs[j].name => i = j
    /\ \A n \in Names : stores[n] # 0 => objs[stores[n]].name = n
    /\ \A i \in 1..Len(objs) : stores[objs[i].name] = i

NilGetterPanics ==
    \A t \in Threads :
        (reg[t].op = "NewStore" /\ reg[t].getter = NilGetter) =>
            (RegIdle(t) /\ reg[t].out = <<"panic", PanicNilGetter>>)

\* the call of goroutine t ends in this step
RegEnds(t) == reg[t].out = <<>> /\ reg'[t].out # <<>>

RegistryStep ==
    /\ \A n \in Names : stores[n] # 0 => stores'[n] = stores[n]
    /\ \A i \in 1..Len(objs) : Len(objs') >= i /\ objs'[i] = objs[i]
    /\ \A t \in Threads :
          (reg'[t] # reg[t] /\ reg'[t].out # <<>> /\ reg'[t].op = "NewStore") =>
              /\ reg'[t].out[1] = "panic" <=>
                    (reg'[t].getter = NilGetter \/ stores[reg'[t].name] # 0)
              /\ reg'[t].out[1] = "panic" => UNCHANGED <<stores, objs>>
              /\ reg'[t].out[1] = "ok" =>
                    (stores'[reg'[t].name] = reg'[t].out[2] /\ reg'[t].out[2] # 0)
    /\ \A t \in Threads :
          (reg'[t] # reg[t] /\ reg'[t].out # <<>> /\ reg'[t].op = "GetStore") =>
              /\ reg'[t].out = <<"ok", stores[reg'[t].name]>>
              /\ UNCHANGED <<stores, objs>>

C11_Registry ==
    /\ [](MuReleased /\ OneStorePerName /\ NilGetterPanics)
    /\ [][RegistryStep]_vars

\* one goroutine's NewStore panicked on a registered name, after which
\* the other's GetStore took the lock and returned the Store first
\* registered, and mu is free
C11_Witness ==
    \E t, u \in Threads, n \in Names :
        /\ reg[t].op = "NewStore" /\ reg[t].name = n
        /\ reg[t].out = <<"panic", PanicDuplicate(n)>>
        /\ reg[u].op = "GetStore" /\ reg[u].name = n
        /\ RegIdle(u) /\ reg[u].out = <<"ok", stores[n]>>
        /\ stores[n] = 1 /\ Len(objs) = 1
        /\ mu = [w |-> 0, r |-> {}]

\* C12: every Get(k, dest) that returns nil leaves in dest a value the loader
\* produced for k, and dest is written by exactly one path: by the loader
\* and not by Get when this caller's work function ran the loader; by
\* exactly one setSinkView of Get otherwise (a hit at the first lookup, a hit
\* at the re-check, or a joined call).
Succeeded(t) == Returned(t) /\ ret[t] = <<NoErr>>

WrittenOnce(t) ==
    IF hist[t].ran > 0
    THEN /\ hist[t].ran = 1 /\ hist[t].sets = 0
         /\ loc[t].destPopulated
         /\ Observed(t) = hist[t].out
    ELSE /\ hist[t].sets = 1
         /\ ~loc[t].destPopulated
         /\ hist[t].hit0 \/ hist[t].joined \/ hist[t].fnRan

C12_DestWrittenOnce ==
    \A t \in Threads :
        Succeeded(t) =>
            /\ dest[t][1].sp \in ghost.made[key[t]]
            /\ SinkView(dest[t]) = [bnil |-> TRUE, b |-> <<>>, s |-> dest[t][1].sp]
            /\ WrittenOnce(t)

\* both goroutines returned nil for one key with the same value: one ran
\* the loader, the other got the value by setSinkView after a hit at its
\* re-check
C12_Witness ==
    \E t, u \in Threads :
        /\ t # u /\ key[t] = key[u]
        /\ Succeeded(t) /\ Succeeded(u)
        /\ hist[t].ran = 1 /\ hist[t].sets = 0
        /\ hist[u].ran = 0 /\ hist[u].sets = 1
        /\ hist[u].fnRan /\ ~hist[u].hit0 /\ ~hist[u].joined
        /\ Observed(t) = Observed(u)

\* C13: between cache operations the tracked byte total is the sum of
\* len(key) + len(value) over the resident entries and nevict is the number
\* of entries removed so far (entries added less entries resident); an add
\* raises the total by len(key) + len(value) of the entry, an eviction
\* lowers it by the same for the evicted entry and adds one to nevict.
RECURSIVE SumBytes(_)
SumBytes(ll) ==
    IF ll = << >> THEN 0
    ELSE Len(ll[1].key) + ViewLen(ll[1].value) + SumBytes(Tail(ll))

\* cache.add calls completed: every counted successful load on a Store with
\* a positive budget adds once, right after it is counted
AddsDone ==
    IF cacheBytes <= 0 THEN 0
    ELSE Stats.LocalLoads - Cardinality({t \in Threads : pc[t] = "populate"})

BytesTracked ==
    /\ cache.nbytes = SumBytes(cache.ll)
    /\ cache.nevict = AddsDone - Len(cache.ll)

BytesStep ==
    LET n == Len(cache.ll) IN
    /\ Len(cache'.ll) > n =>
          /\ Len(cache'.ll) = n + 1
          /\ cache'.nbytes = cache.nbytes
                + Len(cache'.ll[1].key) + ViewLen(cache'.ll[1].value)
          /\ cache'.nevict = cache.nevict
    /\ Len(cache'.ll) < n =>
          /\ Len(cache'.ll) = n - 1
          /\ cache'.nbytes = cache.nbytes
                - (Len(cache.ll[n].key) + ViewLen(cache.ll[n].value))
          /\ cache'.nevict = cache.nevict + 1
    /\ Len(cache'.ll) = n =>
          (cache'.nbytes = cache.nbytes /\ cache'.nevict = cache.nevict)

C13_BytesTracked == []BytesTracked /\ [][BytesStep]_vars

\* an entry was added and another evicted, and the total is the size of the
\* entry that stayed
C13_Witness ==
    /\ cache.nevict = 1 /\ Len(cache.ll) = 1
    /\ cache.nbytes = Len(cache.ll[1].key) + ViewLen(cache.ll[1].value)
    /\ cache.nbytes > 0 /\ AddsDone = 2

\* C14 (as stated): every eviction made by populateCache happens in a state
\* where the tracked byte total is strictly greater than the budget.
EvictsOnlyOverBudget ==
    cache'.nevict > cache.nevict => cache.nbytes > cacheBytes

C14_EvictsOnlyOverBudget == [][EvictsOnlyOverBudget]_vars

\* C15: in every interleaving of Gets, cache.add is never called for a key
\* that is resident at that moment: every add makes a new entry, none is
\* replaced in place, and no key is resident twice.
AddsOnlyAbsentKey ==
    \A t \in Threads :
        (pc[t] = "populate" /\ pc'[t] = "trim") =>
            /\ ~LruHas(cache.ll, key[t])
            /\ Len(cache'.ll) = Len(cache.ll) + 1

NoKeyTwice ==
    \A i, j \in 1..Len(cache.ll) : cache.ll[i].key = cache.ll[j].key => i = j

C15_NoAddOfResidentKey == []NoKeyTwice /\ [][AddsOnlyAbsentKey]_vars

\* a goroutine that missed at its first lookup while another was loading
\* the same key found the key resident at its re-check and did not add
C15_Witness ==
    \E t \in Threads :
        /\ hist[t].fnRan /\ ~hist[t].hit0 /\ hist[t].ran = 0
        /\ Succeeded(t)
        /\ LruHas(cache.ll, key[t])
        /\ Len(cache.ll) = 1 /\ AddsDone = 1

\* C16: a goroutine that is executing caller-supplied code (the loader, or
\* the Sink written by Get through setSinkView) holds none of the three
\* locks (the registry's mu, the singleflight Store's mu, the cache's mu),
\* and a goroutine waiting for a load in flight does not hold the
\* singleflight Store's mu; so a Get for another key is never kept from its
\* next step by a loader that is still running.
InCallerCode(t) == pc[t] \in {"loader", "hit", "wait", "doret"}

HoldsNothing(t) == held[t] = {} /\ mu.w # t /\ t \notin mu.r

NotKeptBySlowLoad ==
    \A t, u \in Threads :
        (/\ t # u /\ pc[u] = "loader" /\ key[t] # key[u]
         /\ pc[t] \notin {"idle", "loader"}
         /\ ~(pc[t] = "wait" /\ calls[loc[t].c].wg # 0)
         /\ \A w \in Threads \ {t, u} : held[w] = {})
            => ENABLED (Acquire(t) \/ Pipeline(t))

C16_NoLockInCallerCode ==
    /\ \A t \in Threads : InCallerCode(t) => HoldsNothing(t)
    /\ \A t \in Threads : pc[t] = "wait" => "sf" \notin held[t]
    /\ \A t \in Threads : held[t] \subseteq Needed(t)
    /\ NotKeptBySlowLoad

\* while one goroutine's loader runs, another has taken the singleflight
\* Store's mu to enter Do for another key
C16_Witness ==
    \E t, u \in Threads :
        /\ pc[u] = "loader" /\ held[u] = {}
        /\ pc[t] = "do" /\ held[t] = {"sf"}
        /\ key[t] # key[u]

\* C17 (as stated, the part on where a caller waits): a Get that cannot take
\* its next step is waiting for the cache's mu or for a load of its key that
\* another caller has in flight, and for nothing else.
CanStep(t) == ENABLED (Acquire(t) \/ Pipeline(t))

\* the frame is inside Get and not running its loader
Blocked(t) == pc[t] \notin {"idle", "loader"} /\ ~CanStep(t)

WaitsFor(t, locks) == Needed(t) \cap locks # {} /\ ~(Needed(t) \subseteq held[t])

OnLoadInFlight(t) ==
    /\ pc[t] = "wait" /\ calls[loc[t].c].wg # 0
    /\ \E u \in Threads \ {t} :
          /\ loc[u].c = loc[t].c /\ key[u] = key[t] /\ hist[u].fnRan
          /\ InFn(u) \/ pc[u] = "dodone"

WaitsOnlyForLockOrLoad ==
    \A t \in Threads :
        Blocked(t) =>
            \/ WaitsFor(t, {"cacheW", "cacheR"})
            \/ WaitsFor(t, {"sf"})
            \/ OnLoadInFlight(t)

WaitersReleased ==
    \A t \in Threads :
        (pc[t] = "wait" /\ calls[loc[t].c].wg = 0) => ENABLED Pipeline(t)

NoDeadlock ==
    (\E t \in Threads : pc[t] # "idle") =>
        \E t \in Threads : pc[t] # "idle" /\ CanStep(t)

Refs(v) == IF v.ref = 0 THEN {} ELSE {v.ref}

CachedRefs == IF cached = << >> THEN {} ELSE Refs(cached[1])

NoSharedBuffer ==
    /\ (sink.kind = "alloc" /\ sink.dst # 0) =>
          sink.dst \notin (Refs(sink.v) \cup CachedRefs)
    /\ lbuf # 0 => lbuf \notin (Refs(view(sink)) \cup CachedRefs)

CachedFrozen == cached # << >> => Content(heap, cached[1]) = obs.frozen

C18_NoSharedBuffer == NoSharedBuffer /\ CachedFrozen

\* a caller served from the cache through setView has written into its
\* slice; the cached bytes, which its sink's view shares, are as they were
C18_Witness ==
    /\ sink.kind = "alloc" /\ cached # << >>
    /\ sink.v = cached[1] /\ sink.v.ref # 0
    /\ sink.dst # 0 /\ heap[sink.dst] # heap[sink.v.ref]
    /\ heap[sink.dst] = Scribbled(obs.frozen)
    /\ Content(heap, cached[1]) = obs.frozen

\* C19: for every variant of Sink and every sequence of SetString, SetBytes
\* and SetJSON calls, view() holds the payload of the most recent call that
\* succeeded and nothing else (the string, the bytes, the encoding of the
\* value); before any, it is empty.
C19_ViewIsLastSet ==
    sink # NoSink =>
        Content(heap, view(sink)) = IF obs.last = << >> THEN << >> ELSE obs.last[1]

\* a stringSink written by SetString and then by SetJSON: its view holds
\* the encoding, and the earlier string is still in the field s
C19_Witness ==
    /\ sink.kind = "string"
    /\ sink.v.ref # 0 /\ sink.v.s # << >>
    /\ obs.last = <<heap[sink.v.ref]>> /\ sink.v.s # heap[sink.v.ref]
    /\ obs.n = 2 /\ obs.ok

\* C20: the Store's counters agree with what happened. LoadsDeduped is the
\* number of loader invocations started (those that returned plus those
\* running); Loads is the number of Gets that missed at their first lookup,
\* once each of them has passed the increment that opens load;
\* LoadsDeduped <= Loads <= Gets in every state; and whenever no Get is in
\* progress LoadsDeduped = LocalLoads + LocalLoadErrs and CacheHits is the
\* hit count of the cache wrapper.
At(ps) == Cardinality({t \in Threads : pc[t] \in ps})

LoaderStarts == ghost.oks + ghost.fails + At({"loader"})

CountersOrdered ==
    /\ Stats.LoadsDeduped <= Stats.Loads
    /\ Stats.Loads <= Stats.Gets

CountersSettled ==
    Quiescent =>
        /\ Stats.Loads = ghost.miss0
        /\ Stats.LoadsDeduped = Stats.LocalLoads + Stats.LocalLoadErrs
        /\ Stats.CacheHits = cache.nhit

C20_CountersConsistent ==
    /\ Stats.LoadsDeduped = LoaderStarts
    /\ Stats.Loads + At({"load"}) = ghost.miss0
    /\ CountersOrdered
    /\ CountersSettled

\* two Gets missed at their first lookup; one ran the loader, the other
\* found the entry at the re-check inside the deduplication unit
C20_Witness ==
    /\ Quiescent
    /\ Stats.Gets = 2 /\ Stats.Loads = 2 /\ ghost.miss0 = 2
    /\ Stats.LoadsDeduped = 1 /\ Stats.LocalLoads = 1
    /\ Stats.CacheHits = 1 /\ cache.nhit = 1

====
